---- MODULE Spec2Model ----
(***************************************************************************)
(* A model of the Telegraph API client (src/src/telegraph/api.py) and of   *)
(* the document model it serialises (src/src/telegraph/types.py).          *)
(*                                                                         *)
(* Python values are tagged records [t |-> <type name>, v |-> <payload>],  *)
(* so that None, strings, lists, dicts and objects can be told apart the   *)
(* way isinstance and truth-value testing tell them apart.                 *)
(***************************************************************************)
EXTENDS Integers, Sequences, FiniteSets, TLC

VARIABLES
    session,       \* the attribute self.session: "unset" (never assigned), "open", "closed"
    access_token,  \* the attribute self.access_token, a Python value
    calls,         \* the coroutines of the client's methods, one per call slot
    lastBearer,    \* history: the token of the latest token-bearing Account returned by
                   \* create_account / edit_account_info; PyNone when there is none or a
                   \* later token-bearing Account came from another method
    lastDone,      \* history: the slot of the call that finished most recently, 0 if none
    node,          \* the NodeElement under construction (serialiser specification)
    depth,         \* how many NodeElements are nested below node
    wire           \* the value node.as_dict() returned, PyNone before the call

clientVars == <<session, access_token, calls, lastBearer, lastDone>>
treeVars == <<node, depth, wire>>
vars == <<session, access_token, calls, lastBearer, lastDone, node, depth, wire>>

-----------------------------------------------------------------------------
(* Bounds of the model *)

MaxDepth == 1
MaxChildren == 2
MaxPages == 2
NSlots == 2

-----------------------------------------------------------------------------
(* Python values *)

PyNone == [t |-> "NoneType"]
PyStr(s) == [t |-> "str", v |-> s]
PyInt(i) == [t |-> "int", v |-> i]
PyBool(b) == [t |-> "bool", v |-> b]
PyList(s) == [t |-> "list", v |-> s]
PyDict(f) == [t |-> "dict", v |-> f]

EmptyDict == [k \in {} |-> PyNone]

\* Python truth-value testing (`if x:`, `not x`)
Truthy(x) ==
    CASE x.t = "NoneType" -> FALSE
      [] x.t = "str" -> x.v # ""
      [] x.t = "int" -> x.v # 0
      [] x.t = "bool" -> x.v
      [] x.t = "list" -> Len(x.v) > 0
      [] x.t = "dict" -> DOMAIN x.v # {}
      [] OTHER -> TRUE

-----------------------------------------------------------------------------
(* types.py: NodeElement *)

NodeElement(tag, attrs, children) ==
    [t |-> "NodeElement", tag |-> tag, attrs |-> attrs, children |-> children]

RECURSIVE as_dict(_)
RECURSIVE as_dict_children(_, _)

\* A slip: `if self.attrs is not None` in place of `if self.attrs`
as_dict_attrs_not_none(self) ==
    LET r0 == [tag |-> self.tag]
        r1 == IF self.attrs # PyNone THEN r0 @@ ("attrs" :> PyDict(self.attrs.v)) ELSE r0
        r2 == IF Truthy(self.children)
              THEN r1 @@ ("children" :> PyList(as_dict_children(self.children.v, <<>>)))
              ELSE r1
    IN  PyDict(r2)

\* NodeElement.as_dict
as_dict(self) ==
    LET r0 == [tag |-> self.tag]
        r1 == IF Truthy(self.attrs) THEN r0 @@ ("attrs" :> PyDict(self.attrs.v)) ELSE r0
        r2 == IF Truthy(self.children)
              THEN r1 @@ ("children" :> PyList(as_dict_children(self.children.v, <<>>)))
              ELSE r1
    IN  PyDict(r2)

\* the loop `for child in self.children` of as_dict; acc is result['children']
as_dict_children(children, acc) ==
    IF children = <<>> THEN acc
    ELSE LET child == Head(children)
         IN  as_dict_children(Tail(children),
                 IF child.t = "NodeElement" THEN Append(acc, as_dict(child))
                 ELSE IF child.t = "str" THEN Append(acc, child)
                 ELSE acc)

-----------------------------------------------------------------------------
(* Document trees the serialiser is applied to *)

Tags == {PyStr("p"), PyStr("b")}
AttrsChoices == {PyNone, PyDict(EmptyDict), PyDict([href |-> PyStr("u")])}

RECURSIVE SeqsUpTo(_, _)
SeqsUpTo(S, n) ==
    IF n = 0 THEN {<<>>}
    ELSE LET shorter == SeqsUpTo(S, n - 1)
         IN  shorter \cup {Append(s, x) : s \in {q \in shorter : Len(q) = n - 1}, x \in S}

LeafChildren == {PyStr("x"), PyInt(7)}
LeafNodes ==
    {NodeElement(tg, a, c) :
        tg \in Tags, a \in AttrsChoices,
        c \in {PyNone} \cup {PyList(s) : s \in SeqsUpTo(LeafChildren, MaxChildren)}}

-----------------------------------------------------------------------------
(* types.py: the dataclasses built from response payloads *)

Fields(cls) ==
    CASE cls = "Account" ->
            {"short_name", "author_name", "author_url", "access_token", "auth_url", "page_count"}
      [] cls = "Page" ->
            {"path", "url", "title", "description", "author_name", "author_url",
             "image_url", "content", "views", "can_edit"}
      [] cls = "PageViews" -> {"views"}

Required(cls) ==
    CASE cls = "Account" -> {"short_name", "author_name", "author_url"}
      [] cls = "Page" -> {"path", "url", "title", "description"}
      [] cls = "PageViews" -> {"views"}

\* cls(**data) raises TypeError on a missing required or an unexpected keyword
CanConstruct(cls, data) ==
    /\ data.t = "dict"
    /\ Required(cls) \subseteq DOMAIN data.v
    /\ DOMAIN data.v \subseteq Fields(cls)

\* cls(**data): absent optional fields take their default, None
Construct(cls, data) ==
    [t |-> cls, v |-> [f \in Fields(cls) |-> IF f \in DOMAIN data.v THEN data.v[f] ELSE PyNone]]

-----------------------------------------------------------------------------
(* api.py: Telegraph._request *)

NotInitializedMsg ==
    "Session is not initialized. Use \"async with Telegraph(...)\" or pass a session."

\* truth value of self.session once the attribute exists: an aiohttp.ClientSession
\* object, open or closed, is truthy
SessionTruthy(sess) == sess \in {"open", "closed"}

\* lines 33-35: the stored token is attached to every method but createAccount
AttachToken(method, params, token) ==
    IF method # "createAccount" /\ Truthy(token)
    THEN [k \in DOMAIN params \cup {"access_token"} |->
            IF k = "access_token" THEN token ELSE params[k]]
    ELSE params

\* lines 30-37: _request up to the await of session.post; `sent` holds the
\* requests handed to the transport
request_send(sess, token, method, params) ==
    IF sess = "unset"
    THEN [raised |-> "AttributeError",
          message |-> "'Telegraph' object has no attribute 'session'", sent |-> <<>>]
    ELSE IF ~SessionTruthy(sess)
    THEN [raised |-> "RuntimeError", message |-> NotInitializedMsg, sent |-> <<>>]
    ELSE IF sess = "closed"
    THEN [raised |-> "RuntimeError", message |-> "Session is closed", sent |-> <<>>]
    ELSE [raised |-> "", message |-> "",
          sent |-> <<[method |-> method, params |-> AttachToken(method, params, token)]>>]

StatusStr(status) == IF status = 200 THEN "200" ELSE "500"

\* a slip: the ok flag is not looked at
request_receive_ignoring_ok(resp) ==
    IF resp.status # 200
    THEN [raised |-> "ClientResponseError",
          message |-> "HTTP " \o StatusStr(resp.status) \o ": " \o resp.text,
          data |-> PyNone]
    ELSE [raised |-> "", message |-> "",
          data |-> IF "result" \in DOMAIN resp.json THEN resp.json.result ELSE PyNone]

\* lines 38-53: _request after the response arrived; `data` is what it returns
request_receive(resp) ==
    IF resp.status # 200
    THEN [raised |-> "ClientResponseError",
          message |-> "HTTP " \o StatusStr(resp.status) \o ": " \o resp.text,
          data |-> PyNone]
    ELSE IF ~Truthy(resp.json.ok)
    THEN [raised |-> "TelegraphException",
          message |-> "API Error: " \o resp.json.error.v,
          data |-> PyNone]
    ELSE [raised |-> "", message |-> "", data |-> resp.json.result]

-----------------------------------------------------------------------------
(* api.py: what each method sends *)

\* [node.as_dict() for node in content]
SerializeContent(content) ==
    PyList([i \in 1..Len(content.v) |-> as_dict(content.v[i])])

MethodOf(op) ==
    CASE op = "create_account" -> "createAccount"
      [] op = "create_page" -> "createPage"
      [] op = "edit_account_info" -> "editAccountInfo"
      [] op = "edit_page" -> "editPage"
      [] op = "get_account_info" -> "getAccountInfo"
      [] op = "get_page" -> "getPage"
      [] op = "get_page_list" -> "getPageList"
      [] op = "get_views" -> "getViews"
      [] op = "revoke_access_token" -> "getViews"

ParamsOf(op, a, token) ==
    CASE op = "create_account" ->
            [short_name |-> a.short_name, author_name |-> a.author_name,
             author_url |-> a.author_url]
      [] op = "create_page" ->
            [access_token |-> token, title |-> a.title,
             content |-> SerializeContent(a.content),
             author_name |-> a.author_name, author_url |-> a.author_url,
             return_content |-> a.return_content]
      [] op = "edit_account_info" ->
            [short_name |-> a.short_name, author_name |-> a.author_name,
             author_url |-> a.author_url]
      [] op = "edit_page" ->
            [path |-> a.path, title |-> a.title,
             content |-> SerializeContent(a.content),
             author_name |-> a.author_name, author_url |-> a.author_url,
             return_content |-> a.return_content]
      [] op = "get_account_info" -> [fields |-> a.fields]
      [] op = "get_page" -> [path |-> a.path, return_content |-> a.return_content]
      [] op = "get_page_list" -> [offset |-> a.offset, limit |-> a.limit]
      [] op = "get_views" ->
            [year |-> a.year, month |-> a.month, day |-> a.day, hour |-> a.hour]
      [] op = "revoke_access_token" -> EmptyDict

-----------------------------------------------------------------------------
(* api.py: what each method does with the data _request returned.           *)
(* The value is [raised, message, result, token]: the exception raised       *)
(* ("" for none), the value returned and self.access_token afterwards.       *)

Returns(result, token) ==
    [raised |-> "", message |-> "", result |-> result, token |-> token]

TypeError(token) ==
    [raised |-> "TypeError", message |-> "__init__() got unexpected or missing arguments",
     result |-> PyNone, token |-> token]

KeyError(key, token) ==
    [raised |-> "KeyError", message |-> key, result |-> PyNone, token |-> token]

\* a slip: the token is stored only when none is stored yet
StoreTokenIfUnset(data, token) ==
    IF CanConstruct("Account", data)
    THEN LET account == Construct("Account", data)
         IN  Returns(account, IF Truthy(token) THEN token ELSE account.v.access_token)
    ELSE TypeError(token)

\* create_account lines 84-86, edit_account_info lines 155-157
StoreToken(data, token) ==
    IF CanConstruct("Account", data)
    THEN LET account == Construct("Account", data)
         IN  Returns(account, account.v.access_token)
    ELSE TypeError(token)

\* get_account_info lines 220-221, revoke_access_token lines 328-329
ReturnAccount(data, token) ==
    IF CanConstruct("Account", data)
    THEN Returns(Construct("Account", data), token)
    ELSE TypeError(token)

\* create_page lines 125-126, edit_page lines 199-200, get_page lines 245-246
ReturnPage(data, token) ==
    IF CanConstruct("Page", data)
    THEN Returns(Construct("Page", data), token)
    ELSE TypeError(token)

\* get_page_list lines 274-275
ReturnPages(data, token) ==
    IF data.t # "dict" THEN TypeError(token)
    ELSE IF "pages" \notin DOMAIN data.v THEN KeyError("pages", token)
    ELSE LET pages == data.v.pages.v
         IN  IF \A i \in 1..Len(pages) : CanConstruct("Page", pages[i])
             THEN Returns(PyList([i \in 1..Len(pages) |-> Construct("Page", pages[i])]), token)
             ELSE TypeError(token)

\* get_views lines 311-312
ReturnViews(data, token) ==
    IF CanConstruct("PageViews", data)
    THEN Returns(Construct("PageViews", data), token)
    ELSE TypeError(token)

Continue(op, data, token) ==
    CASE op \in {"create_account", "edit_account_info"} -> StoreToken(data, token)
      [] op \in {"get_account_info", "revoke_access_token"} -> ReturnAccount(data, token)
      [] op \in {"create_page", "edit_page", "get_page"} -> ReturnPage(data, token)
      [] op = "get_page_list" -> ReturnPages(data, token)
      [] op = "get_views" -> ReturnViews(data, token)

-----------------------------------------------------------------------------
(* Inputs: the callers' arguments and the server's responses *)

Opt(S) == {PyNone} \cup S

HelloWorld ==
    NodeElement(PyStr("p"), PyNone,
        PyList(<<PyStr("Hello, "),
                 NodeElement(PyStr("b"), PyNone, PyList(<<PyStr("world!")>>))>>))

ContentSamples == {PyList(<<>>), PyList(<<HelloWorld>>)}
Bools == {PyBool(FALSE), PyBool(TRUE)}

Args_create_account ==
    [short_name : {PyStr("sn")}, author_name : {PyStr("an")}, author_url : {PyStr("au")}]
Args_create_page ==
    [title : {PyStr("t")}, content : ContentSamples, author_name : Opt({PyStr("an")}),
     author_url : Opt({PyStr("au")}), return_content : Bools]
Args_edit_account_info ==
    [short_name : Opt({PyStr("sn")}), author_name : Opt({PyStr("an")}),
     author_url : Opt({PyStr("au")})]
Args_edit_page ==
    [path : {PyStr("a")}, title : {PyStr("t")}, content : ContentSamples,
     author_name : Opt({PyStr("an")}), author_url : Opt({PyStr("au")}),
     return_content : Bools]
Args_get_account_info == [fields : Opt({PyList(<<PyStr("short_name")>>)})]
Args_get_page == [path : {PyStr("a")}, return_content : Opt({PyBool(TRUE)})]
Args_get_page_list == [limit : Opt({PyInt(2)}), offset : Opt({PyInt(1)})]
Args_get_views ==
    [path : {PyStr("a")}, year : Opt({PyInt(2024)}), month : Opt({PyInt(12)}),
     day : Opt({PyInt(31)}), hour : Opt({PyInt(23)})]

\* the one argument choice per method of the concurrent specification
ConcArgs_edit_account_info ==
    {[short_name |-> PyStr("sn"), author_name |-> PyNone, author_url |-> PyNone]}

Tokens == {PyStr("T1"), PyStr("T2")}

AccountData(token) ==
    LET base == [short_name |-> PyStr("sn"), author_name |-> PyStr("an"),
                 author_url |-> PyStr("au")]
    IN  PyDict(IF token = PyNone THEN base ELSE base @@ ("access_token" :> token))

PageData(path) ==
    PyDict([path |-> path, url |-> PyStr("https://telegra.ph/x"), title |-> PyStr("t"),
            description |-> PyStr("d")])

Paths == {PyStr("a"), PyStr("b")}

PageListData ==
    {PyDict([total_count |-> PyInt(Len(ps) + 1),
             pages |-> PyList([i \in 1..Len(ps) |-> PageData(ps[i])])]) :
        ps \in SeqsUpTo(Paths, MaxPages)}

AccountPayloads == {AccountData(tk) : tk \in Opt(Tokens)}

Payloads ==
    AccountPayloads \cup {PageData(PyStr("a")), PyDict([views |-> PyInt(3)])}
        \cup PageListData

Ok(payload) == [status |-> 200, text |-> "", json |-> [ok |-> PyBool(TRUE), result |-> payload]]

NotOk ==
    {[status |-> 200, text |-> "", json |-> [ok |-> PyBool(FALSE), error |-> PyStr("PAGE_NOT_FOUND")]],
     [status |-> 200, text |-> "",
      json |-> [ok |-> PyBool(FALSE), error |-> PyStr("PAGE_NOT_FOUND"),
                result |-> AccountData(PyStr("T2"))]]}

HttpError == {[status |-> 500, text |-> "oops"]}

Responses == {Ok(pl) : pl \in Payloads} \cup NotOk \cup HttpError

ConcResponses == {Ok(pl) : pl \in AccountPayloads}

-----------------------------------------------------------------------------
(* The client *)

Slots == 1..NSlots
SeqSlots == {1}

IdleCall == [pc |-> "idle"]

InFlight == {s \in Slots : calls[s].pc = "waiting"}

\* A method is called on an idle slot: it runs up to its first suspension, the
\* await of session.post inside _request, or raises before reaching it.
Begin(s, op, a) ==
    LET out == request_send(session, access_token, MethodOf(op), ParamsOf(op, a, access_token))
    IN  /\ calls' = [calls EXCEPT ![s] =
                [pc |-> IF out.raised = "" THEN "waiting" ELSE "done",
                 op |-> op, args |-> a, sess |-> session, cw |-> InFlight,
                 sent |-> out.sent, response |-> PyNone,
                 raised |-> out.raised, message |-> out.message, result |-> PyNone]]
        /\ lastDone' = IF out.raised = "" THEN lastDone ELSE s
        /\ UNCHANGED <<session, access_token, lastBearer, treeVars>>

create_account(s, a) ==
    /\ calls[s].pc = "idle"
    /\ Begin(s, "create_account", a)

create_page(s, a) ==
    /\ calls[s].pc = "idle"
    /\ Begin(s, "create_page", a)

edit_account_info(s, a) ==
    /\ calls[s].pc = "idle"
    /\ Begin(s, "edit_account_info", a)

edit_page(s, a) ==
    /\ calls[s].pc = "idle"
    /\ Begin(s, "edit_page", a)

get_account_info(s, a) ==
    /\ calls[s].pc = "idle"
    /\ Begin(s, "get_account_info", a)

get_page(s, a) ==
    /\ calls[s].pc = "idle"
    /\ Begin(s, "get_page", a)

get_page_list(s, a) ==
    /\ calls[s].pc = "idle"
    /\ Begin(s, "get_page_list", a)

get_views(s, a) ==
    /\ calls[s].pc = "idle"
    /\ Begin(s, "get_views", a)

revoke_access_token(s) ==
    /\ calls[s].pc = "idle"
    /\ Begin(s, "revoke_access_token", EmptyDict)

\* The response of a waiting call arrives: the coroutine resumes in _request
\* and runs to the method's end without suspending again.
Resume(s, resp) ==
    /\ calls[s].pc = "waiting"
    /\ LET got == request_receive(resp)
           out == IF got.raised = ""
                  THEN Continue(calls[s].op, got.data, access_token)
                  ELSE [raised |-> got.raised, message |-> got.message,
                        result |-> PyNone, token |-> access_token]
           bears == /\ out.raised = ""
                    /\ out.result.t = "Account"
                    /\ Truthy(out.result.v.access_token)
       IN  /\ calls' = [calls EXCEPT ![s] =
                   [@ EXCEPT !.pc = "done", !.response = resp, !.raised = out.raised,
                             !.message = out.message, !.result = out.result]]
           /\ access_token' = out.token
           /\ lastBearer' =
                   IF ~bears THEN lastBearer
                   ELSE IF calls[s].op \in {"create_account", "edit_account_info"}
                   THEN out.result.v.access_token
                   ELSE PyNone
    /\ lastDone' = s
    /\ UNCHANGED <<session, treeVars>>

\* The caller has taken the result or the exception of a finished call.
Returned(s) ==
    /\ calls[s].pc = "done"
    /\ calls' = [u \in Slots |->
            IF u = s THEN IdleCall
            ELSE IF calls[u].pc = "idle" THEN calls[u]
            ELSE [calls[u] EXCEPT !.cw = @ \ {s}]]
    /\ lastDone' = IF lastDone = s THEN 0 ELSE lastDone
    /\ UNCHANGED <<session, access_token, lastBearer, treeVars>>

\* __aenter__: a new ClientSession
AEnter ==
    /\ session # "open"
    /\ session' = "open"
    /\ UNCHANGED <<access_token, calls, lastBearer, lastDone, treeVars>>

\* __aexit__: the `async with` block is left once the calls awaited in it ended
AExit ==
    /\ session = "open"
    /\ InFlight = {}
    /\ session' = "closed"
    /\ UNCHANGED <<access_token, calls, lastBearer, lastDone, treeVars>>

InitTokens == {PyNone, PyStr("T1")}

\* __init__: access_token is the constructor's argument; session is not assigned
InitClient ==
    /\ session = "unset"
    /\ access_token \in InitTokens
    /\ calls = [s \in Slots |-> IdleCall]
    /\ lastBearer = PyNone
    /\ lastDone = 0

NoTree == NodeElement(PyStr("p"), PyNone, PyNone)

Init ==
    /\ InitClient
    /\ node = NoTree
    /\ depth = 0
    /\ wire = PyNone

\* one call at a time on one client
Next ==
    \/ AEnter
    \/ AExit
    \/ \E s \in SeqSlots :
        \/ \E a \in Args_create_account : create_account(s, a)
        \/ \E a \in Args_create_page : create_page(s, a)
        \/ \E a \in Args_edit_account_info : edit_account_info(s, a)
        \/ \E a \in Args_edit_page : edit_page(s, a)
        \/ \E a \in Args_get_account_info : get_account_info(s, a)
        \/ \E a \in Args_get_page : get_page(s, a)
        \/ \E a \in Args_get_page_list : get_page_list(s, a)
        \/ \E a \in Args_get_views : get_views(s, a)
        \/ revoke_access_token(s)
        \/ \E resp \in Responses : Resume(s, resp)
        \/ Returned(s)

Spec == Init /\ [][Next]_vars

\* token-mutating calls in flight together on one client
NextConc ==
    \/ AEnter
    \/ \E s \in Slots :
        \/ \E a \in Args_create_account : create_account(s, a)
        \/ \E a \in ConcArgs_edit_account_info : edit_account_info(s, a)
        \/ \E resp \in ConcResponses : Resume(s, resp)
        \/ Returned(s)

SpecConc == Init /\ [][NextConc]_vars

-----------------------------------------------------------------------------
(* The serialiser applied to bounded trees *)

\* a new NodeElement is built around the current one
Wrap(tg, a, cs) ==
    /\ depth < MaxDepth
    /\ node' = NodeElement(tg, a, PyList([i \in 1..Len(cs) |->
                    IF cs[i] = "self" THEN node ELSE PyStr(cs[i])]))
    /\ depth' = depth + 1
    /\ wire' = PyNone
    /\ UNCHANGED clientVars

\* node.as_dict() is called
Serialize ==
    /\ wire = PyNone
    /\ wire' = as_dict(node)
    /\ UNCHANGED <<clientVars, node, depth>>

WrapTags == {PyStr("p")}
WrapShapes == {cs \in SeqsUpTo({"self", "x"}, MaxChildren) : \E i \in 1..Len(cs) : cs[i] = "self"}

InitSer ==
    /\ InitClient
    /\ access_token = PyNone
    /\ node \in LeafNodes
    /\ depth = 0
    /\ wire = PyNone

NextSer ==
    \/ \E tg \in WrapTags, a \in AttrsChoices, cs \in WrapShapes : Wrap(tg, a, cs)
    \/ Serialize

SpecSer == InitSer /\ [][NextSer]_vars

-----------------------------------------------------------------------------
(* Properties *)

Active == {s \in Slots : calls[s].pc # "idle"}
Done == {s \in Slots : calls[s].pc = "done"}
Succeeded == {s \in Done : calls[s].raised = ""}
\* the calls that handed a request to the transport
Requested == {s \in Active : Len(calls[s].sent) > 0}

\* in this step call s hands its request to the transport
Sends(s) == calls[s].pc = "idle" /\ calls'[s].pc = "waiting"
\* in this step the response of call s arrives and the call ends
Ends(s) == calls[s].pc = "waiting" /\ calls'[s].pc = "done"

TokenMutating == {"create_account", "edit_account_info"}

\* C1: once create_account or edit_account_info has returned an account with
\* token T, every request of another method than createAccount issued from
\* then on carries access_token = T, until another token-bearing account
\* arrives.
C1_RequestsCarryLatestToken ==
    [][\A s \in Slots :
          (Sends(s) /\ calls'[s].sent[1].method # "createAccount" /\ lastBearer # PyNone)
          => /\ "access_token" \in DOMAIN calls'[s].sent[1].params
             /\ calls'[s].sent[1].params.access_token = lastBearer]_vars

\* C2: every revoke_access_token call that reaches the transport issues
\* exactly one request, and its operation name is revokeAccessToken (never
\* getViews).
C2_RevokeIssuesRevoke ==
    \A s \in Active :
        (calls[s].op = "revoke_access_token" /\ calls[s].sess = "open")
        => /\ Len(calls[s].sent) = 1
           /\ calls[s].sent[1].method = "revokeAccessToken"

\* C3: after a successful revoke_access_token call that returned an account
\* carrying token T, the stored access token is T.
C3_RevokeStoresToken ==
    \A s \in Succeeded :
        (/\ calls[s].op = "revoke_access_token"
         /\ lastDone = s
         /\ Truthy(calls[s].result.v.access_token))
        => access_token = calls[s].result.v.access_token

RECURSIVE TextOrNodeTree(_)
TextOrNodeTree(n) ==
    /\ n.t = "NodeElement"
    /\ n.children.t = "list" =>
          \A i \in 1..Len(n.children.v) :
              \/ n.children.v[i].t = "str"
              \/ n.children.v[i].t = "NodeElement" /\ TextOrNodeTree(n.children.v[i])

\* the wire form of a content tree, as the specification words it
RECURSIVE IsWireForm(_, _)
IsWireForm(w, n) ==
    /\ w.t = "dict"
    /\ DOMAIN w.v \subseteq {"tag", "attrs", "children"}
    /\ "tag" \in DOMAIN w.v
    /\ w.v.tag = n.tag
    /\ "attrs" \in DOMAIN w.v <=> (n.attrs.t = "dict" /\ DOMAIN n.attrs.v # {})
    /\ "attrs" \in DOMAIN w.v => w.v.attrs = n.attrs
    /\ "children" \in DOMAIN w.v <=> (n.children.t = "list" /\ n.children.v # <<>>)
    /\ "children" \in DOMAIN w.v =>
          /\ w.v.children.t = "list"
          /\ Len(w.v.children.v) = Len(n.children.v)
          /\ \A i \in 1..Len(n.children.v) :
                IF n.children.v[i].t = "str"
                THEN w.v.children.v[i] = n.children.v[i]
                ELSE IsWireForm(w.v.children.v[i], n.children.v[i])

\* C4: for every content tree whose children are text strings or nested
\* nodes, as_dict(node) is the wire form: tag; attrs exactly when the attribute
\* map is non-empty; children exactly when the child sequence is non-empty,
\* in the same order and of the same length, text unchanged and nodes
\* serialised recursively.
C4_AsDictIsWireForm ==
    (wire # PyNone /\ TextOrNodeTree(node)) => IsWireForm(wire, node)

\* a serialised tree with attributes whose children are a text followed by a
\* nested node with an empty attribute map and an empty child list
C4_Witness ==
    /\ wire # PyNone
    /\ TextOrNodeTree(node)
    /\ Truthy(node.attrs)
    /\ node.children.t = "list"
    /\ Len(node.children.v) = 2
    /\ node.children.v[1].t = "str"
    /\ node.children.v[2].t = "NodeElement"
    /\ node.children.v[2].attrs = PyDict(EmptyDict)
    /\ node.children.v[2].children = PyList(<<>>)

OptionalParams ==
    {"author_name", "author_url", "short_name", "fields", "return_content", "limit",
     "offset", "year", "month", "day", "hour"}

\* C5: the parameter map of every request holds a key of an optional
\* parameter only if the caller supplied a value for it, and no parameter
\* (access_token included) is sent with the value None.
C5_NoNullParams ==
    \A s \in Requested :
        LET p == calls[s].sent[1].params
        IN  \A k \in DOMAIN p :
                /\ p[k] # PyNone
                /\ (k \in OptionalParams /\ calls[s].op # "create_account")
                       => calls[s].args[k] # PyNone

\* the response of call s said ok = false under HTTP status 200
Refused(resp) == resp.status = 200 /\ ~Truthy(resp.json.ok)

\* C6 as claimed: a response with ok = false and error E ends the call with
\* an API error whose message is exactly E, no record built, the stored token
\* unchanged.
C6_ErrorMessageVerbatim ==
    [][\A s \in Slots :
          (Ends(s) /\ Refused(calls'[s].response))
          => /\ calls'[s].raised = "TelegraphException"
             /\ calls'[s].message = calls'[s].response.json.error.v
             /\ calls'[s].result = PyNone
             /\ access_token' = access_token]_vars

\* C6 as amended: a response with ok = false and error E ends the call with
\* an API error whose message is "API Error: " followed by E, no record built
\* from the payload, the stored token unchanged.
C6_ErrorMessagePrefixed ==
    [][\A s \in Slots :
          (Ends(s) /\ Refused(calls'[s].response))
          => /\ calls'[s].raised = "TelegraphException"
             /\ calls'[s].message = "API Error: " \o calls'[s].response.json.error.v
             /\ calls'[s].result = PyNone
             /\ access_token' = access_token]_vars

\* a call ended by an ok = false response that also carried a result payload,
\* while a token was stored
C6_Witness ==
    \E s \in Done :
        /\ calls[s].response # PyNone
        /\ Refused(calls[s].response)
        /\ "result" \in DOMAIN calls[s].response.json
        /\ calls[s].raised = "TelegraphException"
        /\ Truthy(access_token)

\* C7: a call made while the session is not acquired (never entered, or
\* exited) fails with the 'Session is not initialized' RuntimeError of
\* _request and issues no request.
C7_UsageError ==
    \A s \in Done :
        calls[s].sess # "open"
        => /\ calls[s].raised = "RuntimeError"
           /\ calls[s].message = NotInitializedMsg
           /\ calls[s].sent = <<>>

\* the two calls were in flight at the same time
Overlapped(a, b) == a \in calls[b].cw \/ b \in calls[a].cw

\* C8: when two token-mutating calls were in flight together and both
\* succeeded, the stored token after both ended is the token of the response
\* that completed last, whichever request was sent first.
C8_LastResponseWins ==
    \A a, b \in Succeeded :
        (/\ a # b
         /\ calls[a].op \in TokenMutating
         /\ calls[b].op \in TokenMutating
         /\ Overlapped(a, b)
         /\ lastDone = b)
        => access_token = calls[b].result.v.access_token

\* create_account was sent while edit_account_info was waiting, ended first,
\* and the edit's response, with another token, ended last
C8_Witness ==
    \E a, b \in Succeeded :
        /\ a # b
        /\ calls[a].op = "create_account"
        /\ calls[b].op = "edit_account_info"
        /\ b \in calls[a].cw
        /\ lastDone = b
        /\ Truthy(calls[a].result.v.access_token)
        /\ Truthy(calls[b].result.v.access_token)
        /\ calls[a].result.v.access_token # calls[b].result.v.access_token
        /\ access_token = calls[b].result.v.access_token

\* C9: the request of every get_views call carries path = the caller's path.
C9_ViewsCarryPath ==
    \A s \in Requested :
        calls[s].op = "get_views"
        => /\ "path" \in DOMAIN calls[s].sent[1].params
           /\ calls[s].sent[1].params.path = calls[s].args.path

\* C10: the value a successful get_page_list returns exposes the total count
\* of the response and the pages in the server's order, none dropped.
C10_PageListExposesTotal ==
    \A s \in Succeeded :
        calls[s].op = "get_page_list"
        => LET data == calls[s].response.json.result.v
               r == calls[s].result
           IN  /\ r.t = "PageList"
               /\ r.v.total_count = data.total_count
               /\ Len(r.v.pages.v) = Len(data.pages.v)
               /\ \A i \in 1..Len(data.pages.v) :
                      r.v.pages.v[i].v.path = data.pages.v[i].v.path

====
